---- MODULE Spec2Model ----
(***************************************************************************)
(* SilentVault: a confidential lending vault.  Every account has an        *)
(* encrypted staked and an encrypted borrowed balance (euint64); stake,    *)
(* borrow, repay and withdraw update them with homomorphic arithmetic and  *)
(* move confidential tokens (cUSDT) between the caller and the vault.      *)
(*                                                                         *)
(* The model works on the plaintexts of the ciphertexts.  The 64-bit       *)
(* unsigned domain [0, 2^64-1] is scaled down to [0, MaxUint] so that      *)
(* wrap-around is within reach of the model checker; every arithmetic      *)
(* operator takes the modulus W of the domain as its first argument.       *)
(***************************************************************************)
EXTENDS Integers, Sequences, FiniteSets, TLC

(* ---------------------------- bounds ---------------------------------- *)

\* largest value of the scaled-down euint64 domain of the general
\* specification (2^64-1 in the contract)
MaxUint == 2

\* width of the domain of the reference scenario (amounts up to 1000)
ScenarioBits == 10

Modulus == MaxUint + 1
ScenarioModulus == 2 ^ ScenarioBits

Accounts == {"alice", "bob"}
Vault == "vault"
Principals == Accounts \cup {Vault}

\* the address of the confidential token the vault is deployed with
Token == "cusdt"

\* address(0)
ZeroAddress == "0x0"

\* a ciphertext handle: the transaction that made it and the name the code
\* gives it; every homomorphic operation returns a new handle
Handle(n, name) == <<n, name>>

\* the value of a mapping entry that was never written (bytes32(0))
ZeroHandle == Handle(0, "zero")

VARIABLES
  staked,     \* _staked:   account -> plaintext of the staked ciphertext
  borrowed,   \* _borrowed: account -> plaintext of the borrowed ciphertext
  balance,    \* token: principal -> plaintext of confidentialBalanceOf
  cusdt,      \* the immutable token reference
  last,       \* the last call: the storage it found, its status, event and amounts
  script,     \* amounts used so far by the reference test
  handles,    \* the handle stored in each entry of _staked and _borrowed
  acl,        \* access-control ledger: the pairs <<handle, principal>> allowed
  log,        \* the events emitted by committed transactions, in order
  nonce,      \* number of transactions sent so far
  returned,   \* the handle the last call returned
  frame       \* the call whose token transfer is in progress, if any

\* what the chain keeps besides the balances
chain == <<handles, acl, log, nonce, returned>>

\* the state only the specification of re-entrance uses
aside == <<frame>>

vars == <<staked, borrowed, balance, cusdt, last, script, handles, acl, log,
          nonce, returned, frame>>

(* ------------------- Encrypted Arithmetic Engine ---------------------- *)

\* FHE.add on euint64: wrapping addition
FHE_add(W, a, b) == (a + b) % W

\* FHE.sub on euint64: wrapping subtraction
FHE_sub(W, a, b) == (a - b + W) % W

\* a strict comparison in the place of FHE.le
FHE_lt(a, b) == a < b

\* FHE.le: encrypted a <= b
FHE_le(a, b) == a <= b

\* the request taken unclamped in the place of FHE.min
FHE_min_first(a, b) == a

\* FHE.min
FHE_min(a, b) == IF a <= b THEN a ELSE b

\* a mux with its branches exchanged
FHE_select_swapped(c, a, b) == IF c THEN b ELSE a

\* FHE.select: secret mux
FHE_select(c, a, b) == IF c THEN a ELSE b

\* FHE.asEuint64: trivial encryption of a plaintext constant
FHE_asEuint64(W, x) == x % W

\* a subtraction that wraps in the place of FHESafeMath.trySub
trySub_wrapping(W, oldValue, delta) == <<TRUE, FHE_sub(W, oldValue, delta)>>

\* FHESafeMath.trySub: (success, oldValue - delta), 0 when delta > oldValue
trySub(W, oldValue, delta) ==
  LET success == FHE_le(delta, oldValue)
  IN <<success, FHE_select(success, FHE_sub(W, oldValue, delta), FHE_asEuint64(W, 0))>>

(* ------------------------ Confidential Token -------------------------- *)

\* the amounts the token may actually move, and return, when asked to move
\* amount out of a balance of balFrom: all of it when the balance suffices,
\* otherwise nothing or what the balance holds
TokenTransferred(balFrom, amount) ==
  IF amount <= balFrom THEN {amount} ELSE {0, balFrom}

\* balances after t has moved from one principal to another
TokenMove(bal, from, to, t) == [bal EXCEPT ![from] = @ - t, ![to] = @ + t]

RECURSIVE SumOver(_, _)
SumOver(f, S) ==
  IF S = {} THEN 0
  ELSE LET x == CHOOSE y \in S : TRUE IN f[x] + SumOver(f, S \ {x})

totalSupply == SumOver(balance, Principals)

(* ----------------------------- results -------------------------------- *)

\* the storage of the vault and of the token, as a call finds it
Snapshot == [staked |-> staked, borrowed |-> borrowed, balance |-> balance]

NoSnapshot ==
  [staked |-> [a \in Accounts |-> 0], borrowed |-> [a \in Accounts |-> 0],
   balance |-> [p \in Principals |-> 0]]

\* a grant that goes to the vault whoever is named
allow_vault(handle, account) == <<handle, Vault>>

\* a grant that goes to a principal other than the one named
allow_other(handle, account) ==
  <<handle, CHOOSE p \in Principals : p # account>>

\* FHE.allow(handle, account): the pair entered in the access-control ledger
allow(handle, account) == <<handle, account>>

\* FHE.allowThis(handle)
allowThis(handle) == allow(handle, Vault)

\* an event whose two handles are exchanged
Borrowed_swapped(user, amount, totalBorrowed) ==
  [name |-> "Borrowed", user |-> user, amount |-> totalBorrowed, total |-> amount]

\* the events of the vault; amount and total are handles
Staked(user, amount, totalStaked) ==
  [name |-> "Staked", user |-> user, amount |-> amount, total |-> totalStaked]
Borrowed(user, amount, totalBorrowed) ==
  [name |-> "Borrowed", user |-> user, amount |-> amount, total |-> totalBorrowed]
Repaid(user, amount, totalBorrowed) ==
  [name |-> "Repaid", user |-> user, amount |-> amount, total |-> totalBorrowed]
Withdrawn(user, amount, totalStaked) ==
  [name |-> "Withdrawn", user |-> user, amount |-> amount, total |-> totalStaked]

\* a call that made no grant, wrote no entry and emitted nothing
NoEffects ==
  [grants |-> {}, slot |-> "none", stored |-> "none", emitted |-> <<>>,
   returns |-> "none"]

NoCall ==
  [op |-> "none", user |-> "none", status |-> "ok", requested |-> 0,
   asked |-> 0, transferred |-> 0, event |-> FALSE, pre |-> NoSnapshot,
   effects |-> NoEffects]

\* what a call that committed leaves behind: its event, the amounts, the
\* grants it made and the mapping it wrote; handles go by their names in
\* the code
Committed(op, user, requested, asked, transferred, effects) ==
  [op |-> op, user |-> user, status |-> "ok", requested |-> requested,
   asked |-> asked, transferred |-> transferred, event |-> TRUE,
   pre |-> Snapshot, effects |-> effects]

\* what a call that reverted leaves behind: the error, no event, no grant,
\* and the amount the token had been asked to move when its transfer failed
Reverted(op, user, asked, error) ==
  [op |-> op, user |-> user, status |-> error, requested |-> 0,
   asked |-> IF error = "TransferFailed" THEN asked ELSE 0,
   transferred |-> 0, event |-> FALSE, pre |-> Snapshot,
   effects |-> NoEffects]

\* a call that fails although nothing is wrong with its proof
CallStatus_rejecting(proofOk, transferOk) ==
  IF proofOk THEN "InvalidProof"
  ELSE IF ~transferOk THEN "TransferFailed"
  ELSE "ok"

\* the status of a call: FHE.fromExternal reverts on a bad proof, and a
\* revert of the token's transfer propagates to the caller
CallStatus(proofOk, transferOk) ==
  IF ~proofOk THEN "InvalidProof"
  ELSE IF ~transferOk THEN "TransferFailed"
  ELSE "ok"

\* the receipt of a call
Outcome(status, op, user, requested, asked, transferred, effects) ==
  IF status = "ok" THEN Committed(op, user, requested, asked, transferred, effects)
  ELSE Reverted(op, user, asked, status)

\* storage writes that survive a failed proof
RollbackOnTransferFailureOnly(status, old, new) ==
  IF status = "TransferFailed" THEN old ELSE new

\* storage writes that survive a failed transfer
RollbackOnInvalidProofOnly(status, old, new) ==
  IF status = "InvalidProof" THEN old ELSE new

\* a revert undoes every storage write of the transaction, in the vault and
\* in the token
Rollback(status, old, new) == IF status = "ok" THEN new ELSE old

\* no call is in progress
NoFrame ==
  [op |-> "none", user |-> "none", requested |-> 0, asked |-> 0,
   transferred |-> 0, pc |-> "idle", reentered |-> FALSE, pre |-> NoSnapshot]

Init ==
  /\ staked = [a \in Accounts |-> 0]
  /\ borrowed = [a \in Accounts |-> 0]
  /\ balance = [p \in Principals |-> 0]
  /\ cusdt = Token
  /\ last = NoCall
  /\ script = <<>>
  /\ handles = [staked |-> [a \in Accounts |-> ZeroHandle],
                borrowed |-> [a \in Accounts |-> ZeroHandle]]
  /\ acl = {}
  /\ log = <<>>
  /\ nonce = 0
  /\ returned = ZeroHandle
  /\ frame = NoFrame

(* ------------------------- token operations --------------------------- *)

\* mint(to, amount): the total supply is a euint64 too and is only increased
\* when it does not overflow
mint(W, to, amount) ==
  LET minted == IF totalSupply + amount < W THEN amount ELSE 0
  IN /\ balance' = [balance EXCEPT ![to] = @ + minted]
     /\ last' = [NoCall EXCEPT !.op = "mint"]
     /\ UNCHANGED <<staked, borrowed, cusdt>>

(* ------------------------- vault operations --------------------------- *)

\* the grants, the mapping write, the event and the return value of stake
stakeEffects(user) ==
  [grants |-> {allowThis("amount"),
               allowThis("transferred"), allow("transferred", user),
               allowThis("newStaked"), allow("newStaked", user)},
   slot |-> "staked", stored |-> "newStaked", returns |-> "newStaked",
   emitted |-> <<Staked(user, "transferred", "newStaked")>>]

\* the grants, the mapping write, the event and the return value of borrow
borrowEffects(user) ==
  [grants |-> {allowThis("requested"), allowThis("approved"),
               allowThis("newBorrowed"), allow("newBorrowed", user),
               allowThis("transferred"), allow("transferred", user)},
   slot |-> "borrowed", stored |-> "newBorrowed", returns |-> "newBorrowed",
   emitted |-> <<Borrowed(user, "transferred", "newBorrowed")>>]

\* the grants, the mapping write, the event and the return value of repay
repayEffects(user) ==
  [grants |-> {allowThis("requested"), allowThis("repayAmount"),
               allowThis("newBorrowed"), allow("newBorrowed", user),
               allowThis("transferred"), allow("transferred", user)},
   slot |-> "borrowed", stored |-> "newBorrowed", returns |-> "newBorrowed",
   emitted |-> <<Repaid(user, "transferred", "newBorrowed")>>]

\* the grants, the mapping write, the event and the return value of withdraw
withdrawEffects(user) ==
  [grants |-> {allowThis("requested"), allowThis("withdrawAmount"),
               allowThis("newStaked"), allow("newStaked", user),
               allowThis("transferred"), allow("transferred", user)},
   slot |-> "staked", stored |-> "newStaked", returns |-> "newStaked",
   emitted |-> <<Withdrawn(user, "transferred", "newStaked")>>]

\* stakedBalance / borrowedBalance: view functions
stakedBalance(account) == staked[account]
borrowedBalance(account) == borrowed[account]

\* stake(encryptedAmount, inputProof) called by user
stake(W, user, plain, proofOk, tokenOk) ==
  LET amount == plain
      status == CallStatus(proofOk, tokenOk)
      effects == stakeEffects(user)
  IN \E transferred \in TokenTransferred(balance[user], amount) :
       LET newStaked == FHE_add(W, staked[user], transferred)
       IN /\ balance' = Rollback(status, balance, TokenMove(balance, user, Vault, transferred))
          /\ staked' = Rollback(status, staked, [staked EXCEPT ![user] = newStaked])
          /\ last' = Outcome(status, "stake", user, plain, amount, transferred, effects)
          /\ UNCHANGED <<borrowed, cusdt>>

\* a borrow that branches on the comparison: a denied request returns
\* before the mapping is written, the token is called and the event is
\* emitted
borrow_branching(W, user, plain, proofOk, tokenOk) ==
  LET requested == plain
      status == CallStatus(proofOk, tokenOk)
      currentBorrowed == borrowed[user]
      candidateBorrowed == FHE_add(W, currentBorrowed, requested)
      canBorrow == FHE_le(candidateBorrowed, staked[user])
  IN IF canBorrow
     THEN \E transferred \in TokenTransferred(balance[Vault], requested) :
            /\ borrowed' = Rollback(status, borrowed,
                                    [borrowed EXCEPT ![user] = candidateBorrowed])
            /\ balance' = Rollback(status, balance,
                                   TokenMove(balance, Vault, user, transferred))
            /\ last' = Outcome(status, "borrow", user, plain, requested,
                               transferred, borrowEffects(user))
            /\ UNCHANGED <<staked, cusdt>>
     ELSE /\ last' = Outcome(status, "borrow", user, plain, 0, 0, NoEffects)
          /\ UNCHANGED <<staked, borrowed, balance, cusdt>>

\* borrow(encryptedAmount, inputProof) called by user
borrow(W, user, plain, proofOk, tokenOk) ==
  LET requested == plain
      status == CallStatus(proofOk, tokenOk)
      currentBorrowed == borrowed[user]
      currentStaked == staked[user]
      candidateBorrowed == FHE_add(W, currentBorrowed, requested)
      canBorrow == FHE_le(candidateBorrowed, currentStaked)
      approved == FHE_select(canBorrow, requested, FHE_asEuint64(W, 0))
      newBorrowed == FHE_select(canBorrow, candidateBorrowed, currentBorrowed)
      effects == borrowEffects(user)
  IN \E transferred \in TokenTransferred(balance[Vault], approved) :
       /\ borrowed' = Rollback(status, borrowed, [borrowed EXCEPT ![user] = newBorrowed])
       /\ balance' = Rollback(status, balance, TokenMove(balance, Vault, user, transferred))
       /\ last' = Outcome(status, "borrow", user, plain, approved, transferred, effects)
       /\ UNCHANGED <<staked, cusdt>>

\* a repay that releases the repaid amount from the caller's stake
repay_releasing(W, user, plain, proofOk, tokenOk) ==
  LET requested == plain
      status == CallStatus(proofOk, tokenOk)
      currentBorrowed == borrowed[user]
      repayAmount == FHE_min(requested, currentBorrowed)
      newBorrowed == FHE_sub(W, currentBorrowed, repayAmount)
      newStaked == FHE_sub(W, staked[user], FHE_min(repayAmount, staked[user]))
      effects == repayEffects(user)
  IN \E transferred \in TokenTransferred(balance[user], repayAmount) :
       /\ borrowed' = Rollback(status, borrowed, [borrowed EXCEPT ![user] = newBorrowed])
       /\ staked' = Rollback(status, staked, [staked EXCEPT ![user] = newStaked])
       /\ balance' = Rollback(status, balance, TokenMove(balance, user, Vault, transferred))
       /\ last' = Outcome(status, "repay", user, plain, repayAmount, transferred, effects)
       /\ UNCHANGED cusdt

\* repay(encryptedAmount, inputProof) called by user
repay(W, user, plain, proofOk, tokenOk) ==
  LET requested == plain
      status == CallStatus(proofOk, tokenOk)
      currentBorrowed == borrowed[user]
      repayAmount == FHE_min(requested, currentBorrowed)
      newBorrowed == FHE_sub(W, currentBorrowed, repayAmount)
      effects == repayEffects(user)
  IN \E transferred \in TokenTransferred(balance[user], repayAmount) :
       /\ borrowed' = Rollback(status, borrowed, [borrowed EXCEPT ![user] = newBorrowed])
       /\ balance' = Rollback(status, balance, TokenMove(balance, user, Vault, transferred))
       /\ last' = Outcome(status, "repay", user, plain, repayAmount, transferred, effects)
       /\ UNCHANGED <<staked, cusdt>>

\* a withdraw that takes the debt of every account off the caller's stake
withdraw_pooled(W, user, plain, proofOk, tokenOk) ==
  LET requested == plain
      status == CallStatus(proofOk, tokenOk)
      currentStaked == staked[user]
      pooledBorrowed == SumOver(borrowed, Accounts) % W
      available == trySub(W, currentStaked, pooledBorrowed)[2]
      withdrawAmount == FHE_min(requested, available)
      newStaked == FHE_sub(W, currentStaked, withdrawAmount)
      effects == withdrawEffects(user)
  IN \E transferred \in TokenTransferred(balance[Vault], withdrawAmount) :
       /\ staked' = Rollback(status, staked, [staked EXCEPT ![user] = newStaked])
       /\ balance' = Rollback(status, balance, TokenMove(balance, Vault, user, transferred))
       /\ last' = Outcome(status, "withdraw", user, plain, withdrawAmount, transferred, effects)
       /\ UNCHANGED <<borrowed, cusdt>>

\* withdraw(encryptedAmount, inputProof) called by user
withdraw(W, user, plain, proofOk, tokenOk) ==
  LET requested == plain
      status == CallStatus(proofOk, tokenOk)
      currentStaked == staked[user]
      currentBorrowed == borrowed[user]
      available == trySub(W, currentStaked, currentBorrowed)[2]
      withdrawAmount == FHE_min(requested, available)
      newStaked == FHE_sub(W, currentStaked, withdrawAmount)
      effects == withdrawEffects(user)
  IN \E transferred \in TokenTransferred(balance[Vault], withdrawAmount) :
       /\ staked' = Rollback(status, staked, [staked EXCEPT ![user] = newStaked])
       /\ balance' = Rollback(status, balance, TokenMove(balance, Vault, user, transferred))
       /\ last' = Outcome(status, "withdraw", user, plain, withdrawAmount, transferred, effects)
       /\ UNCHANGED <<borrowed, cusdt>>

(* ------------------------- general specification ---------------------- *)

Amounts == 0 .. MaxUint

\* the plaintexts of a call: a call whose proof fails reverts before its
\* plaintext is used, so one plaintext stands for all of them
Plaintexts(proofOk) == IF proofOk THEN Amounts ELSE {1}

\* the token is only called once the proof has verified
TokenResults(proofOk) == IF proofOk THEN BOOLEAN ELSE {TRUE}

Mint == \E to \in Accounts, amount \in Amounts :
  mint(Modulus, to, amount) /\ UNCHANGED <<script, chain, aside>>

Stake == \E user \in Accounts, proofOk \in BOOLEAN :
  \E plain \in Plaintexts(proofOk), tokenOk \in TokenResults(proofOk) :
    stake(Modulus, user, plain, proofOk, tokenOk) /\ UNCHANGED <<script, chain, aside>>

Borrow == \E user \in Accounts, proofOk \in BOOLEAN :
  \E plain \in Plaintexts(proofOk), tokenOk \in TokenResults(proofOk) :
    borrow(Modulus, user, plain, proofOk, tokenOk) /\ UNCHANGED <<script, chain, aside>>

Repay == \E user \in Accounts, proofOk \in BOOLEAN :
  \E plain \in Plaintexts(proofOk), tokenOk \in TokenResults(proofOk) :
    repay(Modulus, user, plain, proofOk, tokenOk) /\ UNCHANGED <<script, chain, aside>>

Withdraw == \E user \in Accounts, proofOk \in BOOLEAN :
  \E plain \in Plaintexts(proofOk), tokenOk \in TokenResults(proofOk) :
    withdraw(Modulus, user, plain, proofOk, tokenOk) /\ UNCHANGED <<script, chain, aside>>

Next == Mint \/ Stake \/ Borrow \/ Repay \/ Withdraw

Spec == Init /\ [][Next]_vars

TypeOK ==
  /\ staked \in [Accounts -> 0 .. MaxUint]
  /\ borrowed \in [Accounts -> 0 .. MaxUint]
  /\ balance \in [Principals -> 0 .. MaxUint]
  /\ totalSupply <= MaxUint
  /\ cusdt = Token

(* ------------- calls with a valid proof and a working token ----------- *)

ValidStake == \E user \in Accounts, plain \in Amounts :
  stake(Modulus, user, plain, TRUE, TRUE) /\ UNCHANGED <<script, chain, aside>>

ValidBorrow == \E user \in Accounts, plain \in Amounts :
  borrow(Modulus, user, plain, TRUE, TRUE) /\ UNCHANGED <<script, chain, aside>>

ValidRepay == \E user \in Accounts, plain \in Amounts :
  repay(Modulus, user, plain, TRUE, TRUE) /\ UNCHANGED <<script, chain, aside>>

ValidWithdraw == \E user \in Accounts, plain \in Amounts :
  withdraw(Modulus, user, plain, TRUE, TRUE) /\ UNCHANGED <<script, chain, aside>>

NextValid == Mint \/ ValidStake \/ ValidBorrow \/ ValidRepay \/ ValidWithdraw

SpecValid == Init /\ [][NextValid]_vars

(* ------------- deployment, access control and the event log ----------- *)

\* number of transactions that may be sent
MaxCalls == 3

\* the plaintexts the calls of the bounded specifications use
ChainAmounts == {0, 1}

OtherToken == "token2"
Addresses == {ZeroAddress, Token, OtherToken}

\* a constructor that takes any address
constructor_unchecked(cusdt_) ==
  /\ cusdt' = cusdt_
  /\ last' = [NoCall EXCEPT !.op = "constructor"]

\* constructor(address cusdt_)
constructor(cusdt_) ==
  IF cusdt_ = ZeroAddress
  THEN /\ last' = [NoCall EXCEPT !.op = "constructor", !.status = "ZeroAddress"]
       /\ UNCHANGED cusdt
  ELSE /\ cusdt' = cusdt_
       /\ last' = [NoCall EXCEPT !.op = "constructor"]

\* the handle another mapping holds for the account
staked_of_other_mapping(account) == handles.borrowed[account]
borrowed_of_other_mapping(account) == handles.staked[account]

\* the handles stakedBalance and borrowedBalance return
stakedHandle(account) == handles.staked[account]
borrowedHandle(account) == handles.borrowed[account]

\* no vault is deployed yet
InitChain ==
  /\ staked = [a \in Accounts |-> 0]
  /\ borrowed = [a \in Accounts |-> 0]
  /\ balance = [p \in Principals |-> 0]
  /\ cusdt = ZeroAddress
  /\ last = NoCall
  /\ script = <<>>
  /\ handles = [staked |-> [a \in Accounts |-> ZeroHandle],
                borrowed |-> [a \in Accounts |-> ZeroHandle]]
  /\ acl = {}
  /\ log = <<>>
  /\ nonce = 0
  /\ returned = ZeroHandle
  /\ frame = NoFrame

\* what a transaction leaves on the chain when it commits: its grants in
\* the access-control ledger, the handle in the mapping, its event in the
\* log and the handle it returns; a revert leaves nothing
Record ==
  LET n == nonce + 1
      e == last'.effects
      h(name) == Handle(n, name)
  IN /\ nonce' = n
     /\ acl' = acl \cup {allow(h(g[1]), g[2]) : g \in e.grants}
     /\ log' = log \o [i \in 1 .. Len(e.emitted) |->
                        [e.emitted[i] EXCEPT !.amount = h(@), !.total = h(@)]]
     /\ handles' = IF e.slot = "none" THEN handles
                   ELSE [handles EXCEPT ![e.slot][last'.user] = h(e.stored)]
     /\ returned' = IF e.returns = "none" THEN ZeroHandle ELSE h(e.returns)

VaultExists == cusdt # ZeroAddress

Deploy == \E cusdt_ \in Addresses :
  /\ ~VaultExists
  /\ constructor(cusdt_)
  /\ UNCHANGED <<staked, borrowed, balance, script, chain, aside>>

MintTx == \E to \in Accounts, amount \in ChainAmounts :
  /\ nonce < MaxCalls
  /\ mint(Modulus, to, amount)
  /\ nonce' = nonce + 1
  /\ UNCHANGED <<script, handles, acl, log, returned, aside>>

StakeTx == \E user \in Accounts, proofOk \in BOOLEAN :
  \E plain \in ChainAmounts, tokenOk \in TokenResults(proofOk) :
    /\ VaultExists /\ nonce < MaxCalls
    /\ stake(Modulus, user, plain, proofOk, tokenOk)
    /\ Record /\ UNCHANGED <<script, aside>>

BorrowTx == \E user \in Accounts, proofOk \in BOOLEAN :
  \E plain \in ChainAmounts, tokenOk \in TokenResults(proofOk) :
    /\ VaultExists /\ nonce < MaxCalls
    /\ borrow(Modulus, user, plain, proofOk, tokenOk)
    /\ Record /\ UNCHANGED <<script, aside>>

RepayTx == \E user \in Accounts, proofOk \in BOOLEAN :
  \E plain \in ChainAmounts, tokenOk \in TokenResults(proofOk) :
    /\ VaultExists /\ nonce < MaxCalls
    /\ repay(Modulus, user, plain, proofOk, tokenOk)
    /\ Record /\ UNCHANGED <<script, aside>>

WithdrawTx == \E user \in Accounts, proofOk \in BOOLEAN :
  \E plain \in ChainAmounts, tokenOk \in TokenResults(proofOk) :
    /\ VaultExists /\ nonce < MaxCalls
    /\ withdraw(Modulus, user, plain, proofOk, tokenOk)
    /\ Record /\ UNCHANGED <<script, aside>>

\* a call of the view stakedBalance(account)
StakedBalanceCall == \E account \in Accounts :
  /\ VaultExists
  /\ last' = [NoCall EXCEPT !.op = "stakedBalance", !.user = account,
                            !.pre = Snapshot]
  /\ returned' = stakedHandle(account)
  /\ UNCHANGED <<staked, borrowed, balance, cusdt, script, handles, acl, log, nonce, aside>>

\* a call of the view borrowedBalance(account)
BorrowedBalanceCall == \E account \in Accounts :
  /\ VaultExists
  /\ last' = [NoCall EXCEPT !.op = "borrowedBalance", !.user = account,
                            !.pre = Snapshot]
  /\ returned' = borrowedHandle(account)
  /\ UNCHANGED <<staked, borrowed, balance, cusdt, script, handles, acl, log, nonce, aside>>

NextChain ==
  \/ Deploy \/ MintTx \/ StakeTx \/ BorrowTx \/ RepayTx \/ WithdrawTx
  \/ StakedBalanceCall \/ BorrowedBalanceCall

SpecChain == InitChain /\ [][NextChain]_vars

(* ------------------ re-entrance during the token's transfer ----------- *)

\* who pays and who is paid in the token call of each function
Payer(op, user) == IF op \in {"stake", "repay"} THEN user ELSE Vault
Payee(op, user) == IF op \in {"stake", "repay"} THEN Vault ELSE user

\* the caller's entry as it was when the call began
stakedAtCall(user) == frame.pre.staked[user]

\* _staked[msg.sender] as stake reads it once the token has returned
stakedAtReturn(user) == staked[user]

\* a call reaches its token call: the token is asked to move asked
Invoke(op, user, requested, asked) ==
  /\ frame' = [op |-> op, user |-> user, requested |-> requested,
               asked |-> asked, transferred |-> 0, pc |-> "transfer",
               reentered |-> FALSE, pre |-> Snapshot]
  /\ last' = [NoCall EXCEPT !.op = "call"]
  /\ nonce' = nonce + 1
  /\ UNCHANGED <<balance, cusdt, script, handles, acl, log, returned>>

\* stake up to confidentialTransferFrom: nothing is written yet
beginStake(W, user, plain) ==
  LET amount == plain
  IN /\ Invoke("stake", user, plain, amount)
     /\ UNCHANGED <<staked, borrowed>>

\* borrow up to confidentialTransfer: the new debt is written
beginBorrow(W, user, plain) ==
  LET requested == plain
      currentBorrowed == borrowed[user]
      currentStaked == staked[user]
      candidateBorrowed == FHE_add(W, currentBorrowed, requested)
      canBorrow == FHE_le(candidateBorrowed, currentStaked)
      approved == FHE_select(canBorrow, requested, FHE_asEuint64(W, 0))
      newBorrowed == FHE_select(canBorrow, candidateBorrowed, currentBorrowed)
  IN /\ borrowed' = [borrowed EXCEPT ![user] = newBorrowed]
     /\ Invoke("borrow", user, plain, approved)
     /\ UNCHANGED staked

\* repay up to confidentialTransferFrom: the new debt is written
beginRepay(W, user, plain) ==
  LET requested == plain
      currentBorrowed == borrowed[user]
      repayAmount == FHE_min(requested, currentBorrowed)
      newBorrowed == FHE_sub(W, currentBorrowed, repayAmount)
  IN /\ borrowed' = [borrowed EXCEPT ![user] = newBorrowed]
     /\ Invoke("repay", user, plain, repayAmount)
     /\ UNCHANGED staked

\* withdraw up to confidentialTransfer: the new stake is written
beginWithdraw(W, user, plain) ==
  LET requested == plain
      currentStaked == staked[user]
      currentBorrowed == borrowed[user]
      available == trySub(W, currentStaked, currentBorrowed)[2]
      withdrawAmount == FHE_min(requested, available)
      newStaked == FHE_sub(W, currentStaked, withdrawAmount)
  IN /\ staked' = [staked EXCEPT ![user] = newStaked]
     /\ Invoke("withdraw", user, plain, withdrawAmount)
     /\ UNCHANGED borrowed

\* the token moves what it moves and is about to return it
tokenPays ==
  LET from == Payer(frame.op, frame.user)
      to == Payee(frame.op, frame.user)
  IN \E transferred \in TokenTransferred(balance[from], frame.asked) :
       /\ balance' = TokenMove(balance, from, to, transferred)
       /\ frame' = [frame EXCEPT !.transferred = transferred, !.pc = "paid"]
       /\ UNCHANGED <<staked, borrowed, cusdt, last, script, chain>>

\* the receipt of the call in progress
Receipt(effects) ==
  [Committed(frame.op, frame.user, frame.requested, frame.asked,
             frame.transferred, effects) EXCEPT !.pre = frame.pre]

\* stake after the token has returned: the new stake is computed and written
endStake(W) ==
  LET user == frame.user
      newStaked == FHE_add(W, stakedAtReturn(user), frame.transferred)
  IN /\ staked' = [staked EXCEPT ![user] = newStaked]
     /\ last' = Receipt(stakeEffects(user))
     /\ frame' = [frame EXCEPT !.pc = "done"]
     /\ UNCHANGED <<borrowed, balance, cusdt, script, chain>>

\* borrow, repay and withdraw after the token has returned: grants, emit
endBorrow ==
  /\ last' = Receipt(borrowEffects(frame.user))
  /\ frame' = [frame EXCEPT !.pc = "done"]
  /\ UNCHANGED <<staked, borrowed, balance, cusdt, script, chain>>

endRepay ==
  /\ last' = Receipt(repayEffects(frame.user))
  /\ frame' = [frame EXCEPT !.pc = "done"]
  /\ UNCHANGED <<staked, borrowed, balance, cusdt, script, chain>>

endWithdraw ==
  /\ last' = Receipt(withdrawEffects(frame.user))
  /\ frame' = [frame EXCEPT !.pc = "done"]
  /\ UNCHANGED <<staked, borrowed, balance, cusdt, script, chain>>

\* no token call is in progress
Idle == frame.pc \in {"idle", "done"}

MintIdle == Idle /\ Mint

BeginStake == \E user \in Accounts, plain \in ChainAmounts :
  Idle /\ nonce < MaxCalls /\ beginStake(Modulus, user, plain)

BeginBorrow == \E user \in Accounts, plain \in ChainAmounts :
  Idle /\ nonce < MaxCalls /\ beginBorrow(Modulus, user, plain)

BeginRepay == \E user \in Accounts, plain \in ChainAmounts :
  Idle /\ nonce < MaxCalls /\ beginRepay(Modulus, user, plain)

BeginWithdraw == \E user \in Accounts, plain \in ChainAmounts :
  Idle /\ nonce < MaxCalls /\ beginWithdraw(Modulus, user, plain)

TokenPays == frame.pc = "transfer" /\ tokenPays

\* the token calls back into the vault, once, before or after it has moved
\* the amount; the inner call runs to its end
Reenter == \E user \in Accounts, plain \in ChainAmounts :
  /\ frame.pc \in {"transfer", "paid"} /\ ~frame.reentered
  /\ \/ stake(Modulus, user, plain, TRUE, TRUE)
     \/ borrow(Modulus, user, plain, TRUE, TRUE)
     \/ repay(Modulus, user, plain, TRUE, TRUE)
     \/ withdraw(Modulus, user, plain, TRUE, TRUE)
  /\ frame' = [frame EXCEPT !.reentered = TRUE]
  /\ UNCHANGED <<script, chain>>

EndStake == frame.pc = "paid" /\ frame.op = "stake" /\ endStake(Modulus)
EndBorrow == frame.pc = "paid" /\ frame.op = "borrow" /\ endBorrow
EndRepay == frame.pc = "paid" /\ frame.op = "repay" /\ endRepay
EndWithdraw == frame.pc = "paid" /\ frame.op = "withdraw" /\ endWithdraw

NextReentrant ==
  \/ MintIdle
  \/ BeginStake \/ BeginBorrow \/ BeginRepay \/ BeginWithdraw
  \/ TokenPays \/ Reenter
  \/ EndStake \/ EndBorrow \/ EndRepay \/ EndWithdraw

SpecReentrant == Init /\ [][NextReentrant]_vars

(* --------------------- the reference test as a script ----------------- *)

\* the amounts each step of the test may use; the first of each set is the
\* amount of the reference test
MintAmounts == {1000, 50}
StakeAmounts == {100, 60, 0}
BorrowAmounts == {40, 100, 101}
RepayAmounts == {15, 40, 41}
WithdrawAmounts == {30, 75, 76}

ReferenceScript == <<1000, 100, 40, 15, 30>>

\* cusdt.mint(alice, mintAmount); alice then makes the vault her operator
TestMint == \E amount \in MintAmounts :
  /\ Len(script) = 0
  /\ UNCHANGED <<chain, aside>>
  /\ mint(ScenarioModulus, "alice", amount)
  /\ script' = Append(script, amount)

TestStake == \E amount \in StakeAmounts :
  /\ Len(script) = 1
  /\ UNCHANGED <<chain, aside>>
  /\ stake(ScenarioModulus, "alice", amount, TRUE, TRUE)
  /\ script' = Append(script, amount)

TestBorrow == \E amount \in BorrowAmounts :
  /\ Len(script) = 2
  /\ UNCHANGED <<chain, aside>>
  /\ borrow(ScenarioModulus, "alice", amount, TRUE, TRUE)
  /\ script' = Append(script, amount)

TestRepay == \E amount \in RepayAmounts :
  /\ Len(script) = 3
  /\ UNCHANGED <<chain, aside>>
  /\ repay(ScenarioModulus, "alice", amount, TRUE, TRUE)
  /\ script' = Append(script, amount)

TestWithdraw == \E amount \in WithdrawAmounts :
  /\ Len(script) = 4
  /\ UNCHANGED <<chain, aside>>
  /\ withdraw(ScenarioModulus, "alice", amount, TRUE, TRUE)
  /\ script' = Append(script, amount)

NextScenario == TestMint \/ TestStake \/ TestBorrow \/ TestRepay \/ TestWithdraw

SpecScenario == Init /\ [][NextScenario]_vars

(* ------------------------------ claims -------------------------------- *)

\* plain integer arithmetic the claims are stated in
Least(a, b) == IF a <= b THEN a ELSE b
NonNegative(x) == IF x >= 0 THEN x ELSE 0

\* the last call was a call of op that committed
CommittedCall(op) == last.op = op /\ last.status = "ok"

\* C1: for every account, after any sequence of stake, borrow, repay and
\* withdraw calls, the borrowed balance is at most the staked balance.
C1_CollateralInvariant ==
  \A a \in Accounts : borrowedBalance(a) <= stakedBalance(a)

\* C2: in every borrow call, the amount transferred out of the vault to the
\* caller is at most staked(caller) - borrowed(caller) as it was immediately
\* before the call.  Stated for calls that found borrowed <= staked for every
\* account, so that a violation cannot come from the wrap in stake (C1), and
\* in which the token moved exactly what the vault asked of it.
C2_BorrowWithinCollateral ==
  (/\ CommittedCall("borrow")
   /\ \A a \in Accounts : last.pre.borrowed[a] <= last.pre.staked[a]
   /\ last.transferred = last.asked)
    => last.transferred <= last.pre.staked[last.user] - last.pre.borrowed[last.user]

\* C3: in every transition the caller's ledger balance changes by exactly
\* the amount the token returns as transferred: stake adds it to staked,
\* borrow adds it to borrowed, repay subtracts it from borrowed, withdraw
\* subtracts it from staked (in the arithmetic of the unsigned domain).
C3_LedgerFollowsTransferred ==
  LET u == last.user
      t == last.transferred
  IN /\ CommittedCall("stake") => staked[u] = (last.pre.staked[u] + t) % Modulus
     /\ CommittedCall("borrow") => borrowed[u] = (last.pre.borrowed[u] + t) % Modulus
     /\ CommittedCall("repay") => borrowed[u] = (last.pre.borrowed[u] - t) % Modulus
     /\ CommittedCall("withdraw") => staked[u] = (last.pre.staked[u] - t) % Modulus

\* C4: after repay the caller's borrowed balance is currentBorrowed -
\* min(requested, currentBorrowed) = max(0, currentBorrowed - requested); it
\* neither goes below zero nor wraps.
C4_RepayClamps ==
  CommittedCall("repay") =>
    LET currentBorrowed == last.pre.borrowed[last.user]
        newBorrowed == borrowed[last.user]
    IN /\ newBorrowed = currentBorrowed - Least(last.requested, currentBorrowed)
       /\ newBorrowed = NonNegative(currentBorrowed - last.requested)
       /\ newBorrowed >= 0
       /\ newBorrowed <= currentBorrowed

\* C4 witness: a repay of more than the outstanding, non-zero debt committed
C4_Witness ==
  /\ CommittedCall("repay")
  /\ last.pre.borrowed[last.user] > 0
  /\ last.requested > last.pre.borrowed[last.user]

\* C5: the amount withdraw deducts from the caller's staked balance is
\* min(requested, max(0, staked - borrowed)), so that after withdraw the
\* caller's staked balance is not less than its borrowed balance.
C5_WithdrawClamps ==
  CommittedCall("withdraw") =>
    LET currentStaked == last.pre.staked[last.user]
        currentBorrowed == last.pre.borrowed[last.user]
    IN /\ currentStaked - staked[last.user]
            = Least(last.requested, NonNegative(currentStaked - currentBorrowed))
       /\ staked[last.user] >= borrowed[last.user]

\* C6: whenever currentBorrowed + requested is greater than the caller's
\* staked balance, borrow leaves the borrowed balance unchanged and the
\* amount transferred to the caller is 0.
C6_BorrowDenied ==
  (/\ CommittedCall("borrow")
   /\ last.pre.borrowed[last.user] + last.requested > last.pre.staked[last.user])
    => /\ borrowed[last.user] = last.pre.borrowed[last.user]
       /\ last.transferred = 0

\* C7: when currentBorrowed + requested is exactly the caller's staked
\* balance, borrow is approved: borrowed becomes equal to staked and the
\* amount handed to the token is the full requested amount.
C7_BorrowBoundary ==
  (/\ CommittedCall("borrow")
   /\ last.pre.borrowed[last.user] + last.requested = last.pre.staked[last.user])
    => /\ borrowed[last.user] = staked[last.user]
       /\ staked[last.user] = last.pre.staked[last.user]
       /\ last.asked = last.requested

\* C7 witness: a borrow of a non-zero amount that takes the debt exactly up
\* to the stake committed
C7_Witness ==
  /\ CommittedCall("borrow")
  /\ last.requested > 0
  /\ last.pre.borrowed[last.user] + last.requested = last.pre.staked[last.user]

\* C8: mint 1000, stake 100, borrow 40, repay 15, withdraw 30 end with
\* staked = 70, borrowed = 25 and a wallet of 955; and at every step of the
\* test the wallet moves by the amount, with opposite sign, by which
\* staked - borrowed changes.
C8_ReferenceScenario ==
  /\ script = ReferenceScript
       => /\ stakedBalance("alice") = 70
          /\ borrowedBalance("alice") = 25
          /\ balance["alice"] = 955
  /\ Len(script) >= 2
       => balance["alice"] - last.pre.balance["alice"]
            = - ((staked["alice"] - borrowed["alice"])
                  - (last.pre.staked["alice"] - last.pre.borrowed["alice"]))

\* C8 witness: the reference test has run to its end
C8_Witness ==
  /\ script = ReferenceScript
  /\ CommittedCall("withdraw") /\ last.transferred = 30

\* C9: if the proof of the external input does not verify, the call aborts
\* with an error and every staked, borrowed and wallet balance is as before.
C9_InvalidProofChangesNothing ==
  last.status = "InvalidProof"
    => /\ staked = last.pre.staked
       /\ borrowed = last.pre.borrowed
       /\ balance = last.pre.balance
       /\ ~last.event

\* C9 witness: a call with a bad proof was made by an account that has a
\* stake, a debt and a wallet balance
C9_Witness ==
  /\ last.status = "InvalidProof"
  /\ staked[last.user] > 0 /\ borrowed[last.user] > 0 /\ balance[last.user] > 0

\* C10: if the token's transfer fails, the whole transition is rolled back:
\* no ledger or token balance differs from before, no event is emitted, and
\* the error reaches the caller.
C10_TransferFailureRollsBack ==
  (last.op \in {"stake", "borrow", "repay", "withdraw"}
     /\ last.status \notin {"ok", "InvalidProof"})
    => /\ last.status = "TransferFailed"
       /\ staked = last.pre.staked
       /\ borrowed = last.pre.borrowed
       /\ balance = last.pre.balance
       /\ ~last.event

\* C10 witness: the transfer of a borrow failed whose request was within
\* the collateral, so the new debt had been written before the transfer
C10_Witness ==
  /\ last.op = "borrow" /\ last.status = "TransferFailed"
  /\ last.asked > 0
  /\ borrowed[last.user] + last.asked <= staked[last.user]

\* the transactions of the vault
VaultOps == {"stake", "borrow", "repay", "withdraw"}

\* the last transaction was a transaction of the vault that committed
CommittedTx == last.op \in VaultOps /\ last.status = "ok"

\* the event the last committed transaction appended
LastEvent == log[Len(log)]

\* C11: after every successful stake, borrow, repay or withdraw, the caller
\* and the vault both hold access to the newly stored balance handle (which
\* is the handle returned and emitted) and to the transferred handle the
\* token returned.
C11_CapabilityGrants ==
  CommittedTx =>
    LET total == handles[last.effects.slot][last.user]
        transferred == Handle(nonce, "transferred")
    IN /\ Len(log) > 0
       /\ returned = total
       /\ LastEvent.total = total
       /\ LastEvent.amount = transferred
       /\ total # ZeroHandle
       /\ \A p \in {last.user, Vault} :
            <<total, p>> \in acl /\ <<transferred, p>> \in acl

\* C11 witness: bob's borrow committed after another transaction
C11_Witness ==
  /\ CommittedTx /\ last.op = "borrow" /\ last.user = "bob"
  /\ nonce >= 2

\* C12: in every reachable state, the only principals with access to the
\* handle stored as staked(account) or borrowed(account) are that account
\* and the vault; no transaction of another account gives that account, or
\* anyone else, access to it.
C12_OwnerOnlyDecryption ==
  \A a \in Accounts : \A slot \in {"staked", "borrowed"} :
    \A g \in acl : g[1] = handles[slot][a] => g[2] \in {a, Vault}

\* C12 witness: alice has a stored staked balance she may decrypt, and bob
\* has transacted after it was stored
C12_Witness ==
  /\ handles.staked["alice"] # ZeroHandle
  /\ <<handles.staked["alice"], "alice">> \in acl
  /\ CommittedTx /\ last.user = "bob"
  /\ handles.staked["alice"][1] < nonce

\* C13: with a valid proof and a token that does not fail, stake, borrow,
\* repay and withdraw complete without error from every reachable state and
\* for every requested amount of the domain, also when the request exceeds
\* the collateral, the debt or the available stake.
C13_Totality ==
  /\ last.op \in VaultOps => last.status = "ok" /\ last.event
  /\ \A user \in Accounts : \A plain \in Amounts :
       /\ ENABLED (stake(Modulus, user, plain, TRUE, TRUE) /\ last'.status = "ok")
       /\ ENABLED (borrow(Modulus, user, plain, TRUE, TRUE) /\ last'.status = "ok")
       /\ ENABLED (repay(Modulus, user, plain, TRUE, TRUE) /\ last'.status = "ok")
       /\ ENABLED (withdraw(Modulus, user, plain, TRUE, TRUE) /\ last'.status = "ok")

\* C13 witness: a withdraw of more than the stake not backing a debt
\* committed, leaving the backing stake in place
C13_Witness ==
  /\ CommittedCall("withdraw")
  /\ last.pre.borrowed[last.user] > 0
  /\ last.requested > last.pre.staked[last.user] - last.pre.borrowed[last.user]
  /\ staked[last.user] > 0

\* the mapping a view reads, and the events of the transactions that write it
ViewSlot(op) == IF op = "stakedBalance" THEN "staked" ELSE "borrowed"
WritersOf(slot) ==
  IF slot = "staked" THEN {"Staked", "Withdrawn"} ELSE {"Borrowed", "Repaid"}
NeverWritten(slot, account) ==
  \A i \in 1 .. Len(log) :
    ~ (log[i].user = account /\ log[i].name \in WritersOf(slot))

\* C14: stakedBalance(account) and borrowedBalance(account) are pure reads:
\* they change no mapping, no token balance and no grant, emit no event, and
\* return the stored handle, which is the zero handle for an account whose
\* entry was never written.
C14_ViewsArePureReads ==
  [][last'.op \in {"stakedBalance", "borrowedBalance"} =>
       /\ UNCHANGED <<staked, borrowed, balance, cusdt, handles, acl, log>>
       /\ returned' = handles[ViewSlot(last'.op)][last'.user]
       /\ NeverWritten(ViewSlot(last'.op), last'.user) => returned' = ZeroHandle]_vars

\* C14 witness: stakedBalance returned a stored handle while some entry of
\* the other mapping was never written
C14_Witness ==
  /\ last.op = "stakedBalance" /\ returned # ZeroHandle
  /\ handles.borrowed[last.user] = ZeroHandle
  /\ Len(log) > 0

\* C15: construction with the zero address fails with ZeroAddress and
\* creates no vault; with a non-zero address the token reference is fixed
\* at construction and no later operation changes it.
C15_TokenReference ==
  [][/\ cusdt # ZeroAddress => cusdt' = cusdt
     /\ (last'.op = "constructor" /\ last'.status = "ok") => cusdt' # ZeroAddress
     /\ (last'.op = "constructor" /\ last'.status # "ok") =>
          /\ last'.status = "ZeroAddress"
          /\ cusdt' = ZeroAddress
          /\ UNCHANGED <<staked, borrowed, balance, chain>>
     /\ cusdt' = ZeroAddress =>
          last'.op \notin VaultOps /\ log' = <<>> /\ acl' = {}]_vars

\* C15 witness: a construction with the zero address has failed
C15_Witness ==
  /\ last.op = "constructor" /\ last.status = "ZeroAddress"
  /\ cusdt = ZeroAddress

\* the type of event each transaction emits
EventName(op) ==
  IF op = "stake" THEN "Staked"
  ELSE IF op = "borrow" THEN "Borrowed"
  ELSE IF op = "repay" THEN "Repaid"
  ELSE "Withdrawn"

\* C16: every committed stake, borrow, repay or withdraw appends exactly one
\* event of the matching type, carrying the caller, the transferred handle
\* the token returned and the newly stored total handle; the log is
\* append-only and in commit order, and an aborted transaction appends
\* nothing.
C16_EventLog ==
  [][IF last'.op \in VaultOps /\ last'.status = "ok"
     THEN log' = Append(log,
                  [name |-> EventName(last'.op), user |-> last'.user,
                   amount |-> Handle(nonce', "transferred"),
                   total |-> handles'[last'.effects.slot][last'.user]])
     ELSE log' = log]_vars

\* C16 witness: three transactions were sent, two of them committed, and
\* the last one aborted
C16_Witness ==
  /\ nonce = 3 /\ Len(log) = 2
  /\ log[1].name # log[2].name
  /\ last.op \in VaultOps /\ last.status # "ok"

\* C18: borrow never decreases the caller's borrowed balance, whatever the
\* requested amount, also when currentBorrowed + requested exceeds the
\* largest value of the domain.
C18_BorrowNeverDecreasesDebt ==
  CommittedCall("borrow") => borrowed[last.user] >= last.pre.borrowed[last.user]

\* the step in which the call in progress ends
EndStep == frame.pc = "paid" /\ frame'.pc = "done"

\* C19: in stake, borrow and withdraw the new ledger balance is computed and
\* written to the mapping before the token's transfer is invoked: once the
\* token has been called, the call writes no mapping any more.
C19_PersistBeforeTransfer ==
  [][(EndStep /\ frame.op \in {"stake", "borrow", "withdraw"})
        => staked' = staked /\ borrowed' = borrowed]_vars

\* C19 as amended: borrow, repay and withdraw write the new balance before
\* they invoke the token and write nothing after it; stake invokes the
\* token first and then writes the stake it reads at that time plus the
\* transferred amount.
C19_PersistOrder ==
  [][/\ (EndStep /\ frame.op \in {"borrow", "repay", "withdraw"})
          => staked' = staked /\ borrowed' = borrowed
     /\ (EndStep /\ frame.op = "stake")
          => /\ staked' = [staked EXCEPT ![frame.user] =
                             (@ + frame.transferred) % Modulus]
             /\ borrowed' = borrowed
     /\ (Idle /\ frame'.pc = "transfer" /\ frame'.op = "stake")
          => staked' = staked /\ borrowed' = borrowed]_vars

\* C19 witness: a stake has ended whose caller's stake was changed by a
\* re-entrant call while the token was transferring
C19_Witness ==
  /\ frame.pc = "done" /\ frame.op = "stake" /\ frame.reentered
  /\ frame.transferred > 0
  /\ staked[frame.user]
       # (frame.pre.staked[frame.user] + frame.transferred) % Modulus

\* borrowed <= staked for every account
Collateralised(s, b) == \A a \in Accounts : b[a] <= s[a]

\* C20: if the token re-enters the vault while the transfer of an outer
\* call is in progress, the re-entrant call finds borrowed <= staked for
\* every account; after the inner and the outer call have completed,
\* borrowed <= staked still holds for every account, and the outer call has
\* not overwritten the update of the inner call with a value computed from
\* the state before it.  Stated for outer calls that began with
\* borrowed <= staked for every account.
C20_ReentrancySafety ==
  [][Collateralised(frame'.pre.staked, frame'.pre.borrowed) =>
       /\ frame'.pc \in {"transfer", "paid"} => Collateralised(staked', borrowed')
       /\ (frame'.pc = "done" /\ frame'.reentered)
            => Collateralised(staked', borrowed')
       /\ (EndStep /\ frame.reentered) =>
            /\ borrowed' = borrowed
            /\ staked' = IF frame.op = "stake"
                         THEN [staked EXCEPT ![frame.user] =
                                 (@ + frame.transferred) % Modulus]
                         ELSE staked]_vars

\* the mapping each transaction writes
SlotOf(op) == IF op \in {"stake", "withdraw"} THEN "staked" ELSE "borrowed"

\* the borrow the last transaction made was denied
DeniedBorrow ==
  /\ last.op = "borrow" /\ last.status = "ok"
  /\ (last.pre.borrowed[last.user] + last.requested) % Modulus
       > last.pre.staked[last.user]

\* C21: what a committed transaction lets an observer see is fixed by the
\* function called and the caller, never by the plaintexts: it writes a new
\* handle into the caller's slot of its mapping, calls the token (a new
\* transferred handle exists and is granted to the caller) and appends one
\* event of its type.  A borrow that is denied does all of this as an
\* approved one does, and the amount it hands to the token is 0.
C21_SecretIndependentSteps ==
  CommittedTx =>
    /\ handles[SlotOf(last.op)][last.user][1] = nonce
    /\ <<Handle(nonce, "transferred"), last.user>> \in acl
    /\ Len(log) > 0
    /\ LastEvent.name = EventName(last.op)
    /\ LastEvent.user = last.user
    /\ LastEvent.amount = Handle(nonce, "transferred")
    /\ DeniedBorrow => last.asked = 0 /\ last.transferred = 0

\* C21 witness: a borrow of a non-zero amount was denied, and it wrote the
\* mapping and emitted Borrowed
C21_Witness ==
  /\ DeniedBorrow
  /\ last.requested > 0
  /\ handles["borrowed"][last.user] = Handle(nonce, "newBorrowed")
  /\ LastEvent.name = "Borrowed"

\* C22: the addition in stake never overflows: the total supply of the
\* token is at most the largest value of the domain, and in every committed
\* stake the true sum of the caller's staked balance and the amount
\* transferred is at most the largest value of the domain.
C22_StakeNeverOverflows ==
  /\ totalSupply <= MaxUint
  /\ CommittedCall("stake")
       => last.pre.staked[last.user] + last.transferred <= MaxUint

\* C23: the subtractions never wrap: the amount repay subtracts is at most
\* the caller's borrowed balance and the new borrowed balance is the true
\* difference; the amount withdraw subtracts is at most the caller's staked
\* balance and the new staked balance is the true difference; and when the
\* borrowed balance exceeds the staked balance, the amount available to
\* withdraw is 0, so withdraw subtracts nothing.
C23_SubtractionsNeverWrap ==
  /\ CommittedCall("repay") =>
       /\ last.asked <= last.pre.borrowed[last.user]
       /\ borrowed[last.user] = last.pre.borrowed[last.user] - last.asked
  /\ CommittedCall("withdraw") =>
       /\ last.asked <= last.pre.staked[last.user]
       /\ staked[last.user] = last.pre.staked[last.user] - last.asked
       /\ last.pre.borrowed[last.user] > last.pre.staked[last.user]
            => last.asked = 0 /\ staked[last.user] = last.pre.staked[last.user]

\* C23 witness: a withdraw of a non-zero amount committed for a caller whose
\* borrowed balance exceeded a non-zero staked balance
C23_Witness ==
  /\ CommittedCall("withdraw")
  /\ last.requested > 0
  /\ last.pre.staked[last.user] > 0
  /\ last.pre.borrowed[last.user] > last.pre.staked[last.user]

\* the amount a call hands to the token, from the caller's own staked
\* balance s, borrowed balance b and request r
OwnAsked(op, s, b, r) ==
  IF op = "stake" THEN r
  ELSE IF op = "borrow" THEN (IF (b + r) % Modulus <= s THEN r ELSE 0)
  ELSE IF op = "repay" THEN Least(r, b)
  ELSE Least(r, NonNegative(s - b))

\* the caller's (staked, borrowed) pair after a call, from the caller's own
\* pair (s, b), the request r and the amount t the token moved
OwnPair(op, s, b, r, t) ==
  IF op = "stake" THEN <<(s + t) % Modulus, b>>
  ELSE IF op = "borrow"
       THEN <<s, IF (b + r) % Modulus <= s THEN (b + r) % Modulus ELSE b>>
  ELSE IF op = "repay" THEN <<s, b - Least(r, b)>>
  ELSE <<s - Least(r, NonNegative(s - b)), b>>

\* the principal whose token balance a call draws on
PayerOf(op, user) == IF op \in {"stake", "repay"} THEN user ELSE Vault

\* C24: a committed stake, borrow, repay or withdraw of account A leaves the
\* staked and the borrowed balance of every other account as they were, and
\* its outcome is fixed by A's own state: the amount handed to the token and
\* A's new balances follow from A's own staked and borrowed balance, the
\* request and the amount the token moved, and the amount moved follows
\* from the amount asked and the payer's token balance.
C24_AccountIndependence ==
  CommittedTx =>
    LET A == last.user
        s == last.pre.staked[A]
        b == last.pre.borrowed[A]
    IN /\ \A B \in Accounts \ {A} :
            /\ staked[B] = last.pre.staked[B]
            /\ borrowed[B] = last.pre.borrowed[B]
       /\ last.asked = OwnAsked(last.op, s, b, last.requested)
       /\ <<staked[A], borrowed[A]>>
            = OwnPair(last.op, s, b, last.requested, last.transferred)
       /\ last.transferred
            \in {0, last.asked, last.pre.balance[PayerOf(last.op, A)]}

\* C24 witness: a withdraw of account A was paid in full while another
\* account held a stake and a debt
C24_Witness ==
  /\ CommittedCall("withdraw")
  /\ last.transferred > 0
  /\ \E B \in Accounts \ {last.user} : staked[B] > 0 /\ borrowed[B] > 0

\* C25: in every reachable state the token balance of the vault equals the
\* sum over all accounts of staked - borrowed.
C25_VaultSolvency ==
  balance[Vault] = SumOver(staked, Accounts) - SumOver(borrowed, Accounts)

\* C26: no stake, borrow, repay or withdraw call changes the caller's
\* wallet + staked - borrowed.
C26_ValueConservation ==
  CommittedTx =>
    balance[last.user] + staked[last.user] - borrowed[last.user]
      = last.pre.balance[last.user] + last.pre.staked[last.user]
          - last.pre.borrowed[last.user]

\* C27: a committed stake or withdraw leaves the caller's borrowed balance
\* unchanged, and a committed borrow or repay leaves the caller's staked
\* balance unchanged.
C27_FieldFrame ==
  /\ (CommittedCall("stake") \/ CommittedCall("withdraw"))
       => borrowed[last.user] = last.pre.borrowed[last.user]
  /\ (CommittedCall("borrow") \/ CommittedCall("repay"))
       => staked[last.user] = last.pre.staked[last.user]

\* C27 witness: a repay that reduced the debt of a caller who holds a stake
C27_Witness ==
  /\ CommittedCall("repay")
  /\ borrowed[last.user] < last.pre.borrowed[last.user]
  /\ staked[last.user] > 0

\* a committed call of second by the account whose committed call of first
\* was the call before it, with the same amount x > 0
RoundTrip(first, second) ==
  /\ last.op = first /\ last.status = "ok" /\ last.requested > 0
  /\ last'.op = second /\ last'.status = "ok"
  /\ last'.user = last.user
  /\ last'.requested = last.requested

\* C28: a stake of x that is fully transferred, followed immediately by
\* withdraw(x) of the same account, restores the account's staked balance
\* and wallet to their values before the stake; an approved borrow of x
\* followed immediately by repay(x) restores the account's borrowed balance
\* and wallet to their values before the borrow.
C28_RoundTrips ==
  [][/\ (RoundTrip("stake", "withdraw") /\ last.transferred = last.requested)
          => /\ staked'[last.user] = last.pre.staked[last.user]
             /\ balance'[last.user] = last.pre.balance[last.user]
     /\ (RoundTrip("borrow", "repay") /\ last.asked = last.requested)
          => /\ borrowed'[last.user] = last.pre.borrowed[last.user]
             /\ balance'[last.user] = last.pre.balance[last.user]]_vars


====
